---- MODULE Spec2Model ----
(***************************************************************************)
(* The recurring-task tracker: the store-backed client (the App component  *)
(* over Firestore, src/unnamed/part_000) and the classification it         *)
(* renders. The browser-local client (src/src/App.tsx) builds the same     *)
(* records and derives the same lists.                                     *)
(*                                                                         *)
(* Timestamps and durations are counted in units of 1000 ms: TLC's         *)
(* integers are 32 bits wide and one month, 2592000000 ms, does not fit.   *)
(* The code only adds timestamps, multiplies a duration by the frequency   *)
(* value and compares, so the scale changes no outcome: the source's       *)
(* now = 1000 is 1 here and its 86400000 is 86400.                         *)
(***************************************************************************)
EXTENDS Integers, Sequences, FiniteSets, TLC

\* ------------------------------------------------------------------ bounds
\* Ids crypto.randomUUID() hands out over a run.
MaxTasks == 2
\* Writes (setDoc, deleteDoc) the client sends over a run.
MaxWrites == 2
\* Times the clock advances over a run.
MaxTicks == 2
\* Snapshots the store has pushed and the listener has not yet received.
MaxSnaps == 2
\* Tasks in a collection the classification is checked on.
MaxLen == 4

\* ------------------------------------------------------------- data model
\* number | null: null is <<>>, a number n is <<n>>.
Null == <<>>
Some(n) == <<n>>

FrequencyUnit == {"hours", "days", "weeks", "months"}

\* The table of frequencyToMs, in units of 1000 ms.
ms(unit) ==
    CASE unit = "hours"  -> 3600
      [] unit = "days"   -> 86400
      [] unit = "weeks"  -> 604800
      [] unit = "months" -> 2592000

frequencyToMs(f) == f.value * ms(f.unit)

\* Number(e.target.value) on the text of the frequency field. The field is an
\* <input type="number">: the browser hands over "" for text that is not a
\* number, and Number("") is 0. min="1" constrains form validation only, not
\* the value the change event carries.
Number(text) ==
    CASE text = ""   -> 0
      [] text = "0"  -> 0
      [] text = "-1" -> 0 - 1
      [] text = "1"  -> 1
      [] text = "2"  -> 2
      [] text = "3"  -> 3

\* What the user types into the frequency field.
FreqTexts == {"", "-1", "2"}
\* What the user picks in the unit select.
UnitChoices == {"days", "weeks"}
\* What the user types into the event field.
EventTexts == {"Water plants"}
\* What the user picks in the last-execute field, as new Date(text).getTime().
LastTimes == {60}
Ids == 1 .. MaxTasks

VARIABLES
    todos,    \* useState<Todo[]>: the in-memory collection, an array
    store,    \* the persisted collection: id -> record
    snaps,    \* snapshots pushed by the store, not yet received
    now,      \* Date.now()
    ticks,    \* how often the clock has advanced
    writes,   \* writes the client has sent
    nextId,   \* the next id crypto.randomUUID() returns
    console,  \* what console.log, console.error and the runtime have reported
    removed,  \* history: the ids whose deleteDoc has landed
    view,     \* what the last render derived from todos and the clock
    hist      \* the last write that landed, and the intent behind it

vars ==
    <<todos, store, snaps, now, ticks, writes, nextId, console, removed, view, hist>>

\* ------------------------------------------------------------ the records
\* A slip: the new task counts as never executed.
newTodoNeverDone(id, t) ==
    LET freq == [value |-> 1, unit |-> "days"]
    IN  [id |-> id,
         event |-> "New Task",
         frequency |-> freq,
         lastExecuteTime |-> Null,
         nextExecuteTime |-> t + frequencyToMs(freq),
         createdAt |-> t,
         skippedAt |-> Null]

\* addTodo's record.
newTodo(id, t) ==
    LET freq == [value |-> 1, unit |-> "days"]
    IN  [id |-> id,
         event |-> "New Task",
         frequency |-> freq,
         lastExecuteTime |-> Some(t),
         nextExecuteTime |-> t + frequencyToMs(freq),
         createdAt |-> t,
         skippedAt |-> Null]

\* { ...todo, ...updates }
spread(todo, updates) ==
    [k \in DOMAIN todo |-> IF k \in DOMAIN updates THEN updates[k] ELSE todo[k]]

\* A slip: the anchor is read from the record as it was before the changes.
baseBeforeChanges(updated, todo) ==
    IF todo.lastExecuteTime = Null THEN todo.createdAt
    ELSE todo.lastExecuteTime[1]

\* updated.lastExecuteTime ?? todo.createdAt
base(updated, todo) ==
    IF updated.lastExecuteTime = Null THEN todo.createdAt
    ELSE updated.lastExecuteTime[1]

\* A slip: every edit recomputes, an edit of the event too.
updatedAlways(todo, updates) ==
    LET u == spread(todo, updates)
    IN  [u EXCEPT !.nextExecuteTime = base(u, todo) + frequencyToMs(u.frequency),
                  !.skippedAt = Null]

\* A slip: only an edit of lastExecuteTime recomputes.
updatedOnLastOnly(todo, updates) ==
    LET u == spread(todo, updates)
    IN  IF "lastExecuteTime" \in DOMAIN updates
        THEN [u EXCEPT !.nextExecuteTime = base(u, todo) + frequencyToMs(u.frequency),
                       !.skippedAt = Null]
        ELSE u

\* updateTodo's record.
updated(todo, updates) ==
    LET u == spread(todo, updates)
    IN  IF "frequency" \in DOMAIN updates \/ "lastExecuteTime" \in DOMAIN updates
        THEN [u EXCEPT !.nextExecuteTime = base(u, todo) + frequencyToMs(u.frequency),
                       !.skippedAt = Null]
        ELSE u

\* A slip: the next time is counted from the old lastExecuteTime.
completedOnLast(todo, t) ==
    [todo EXCEPT !.lastExecuteTime = Some(t),
                 !.nextExecuteTime = base(todo, todo) + frequencyToMs(todo.frequency),
                 !.skippedAt = Null]

\* complete's record.
completed(todo, t) ==
    [todo EXCEPT !.lastExecuteTime = Some(t),
                 !.nextExecuteTime = t + frequencyToMs(todo.frequency),
                 !.skippedAt = Null]

\* A slip: skip goes through the anchor the other intents use.
skippedOnLast(todo, t) ==
    [todo EXCEPT !.nextExecuteTime = base(todo, todo) + frequencyToMs(todo.frequency),
                 !.skippedAt = Some(t)]

\* skip's record. skippedAt is history, no field of Todo: the time of the
\* skip that set nextExecuteTime, null once another intent has set it.
skipped(todo, t) ==
    [todo EXCEPT !.nextExecuteTime = t + frequencyToMs(todo.frequency),
                 !.skippedAt = Some(t)]

\* todos.find(t => t.id === id): <<>> when there is none, else <<the first>>.
find(arr, id) ==
    LET hits == {i \in 1 .. Len(arr) : arr[i].id = id}
    IN  IF hits = {} THEN Null
        ELSE Some(arr[CHOOSE i \in hits : \A j \in hits : i <= j])

\* --------------------------------------------------------- classification
\* A slip: the comparator's operands are swapped.
compareDescending(a, b) == b.nextExecuteTime - a.nextExecuteTime

\* (a, b) => a.nextExecuteTime - b.nextExecuteTime
compare(a, b) == a.nextExecuteTime - b.nextExecuteTime

\* [...todos].sort(compare): Array.prototype.sort is stable, so an element
\* goes behind those that sort before it or equal to it and came before it.
RECURSIVE sorted(_)
sorted(arr) ==
    IF Len(arr) <= 1 THEN arr
    ELSE LET x == arr[Len(arr)]
             front == sorted(SubSeq(arr, 1, Len(arr) - 1))
             k == Cardinality({i \in 1 .. Len(front) : compare(front[i], x) <= 0})
         IN  SubSeq(front, 1, k) \o <<x>> \o SubSeq(front, k + 1, Len(front))

\* A slip: a task due exactly now counts as overdue.
isOverdueOrDue(t, reading) == t.nextExecuteTime <= reading

\* t.nextExecuteTime < Date.now()
isOverdue(t, reading) == t.nextExecuteTime < reading

\* t.nextExecuteTime >= Date.now()
isUpcoming(t, reading) == t.nextExecuteTime >= reading

\* The elements of a pass over arr, each with the clock reading of its
\* callback: reads[from + i] for element i.
called(arr, reads, from) ==
    [i \in 1 .. Len(arr) |-> [t |-> arr[i], reading |-> reads[from + i]]]

\* The elements themselves again.
elements(calls) == [i \in 1 .. Len(calls) |-> calls[i].t]

keepOverdue(c) == isOverdue(c.t, c.reading)

keepUpcoming(c) == isUpcoming(c.t, c.reading)

\* sorted.filter(t => t.nextExecuteTime < Date.now()): the callback reads the
\* clock once for every element.
overdueItems(srt, reads) ==
    elements(SelectSeq(called(srt, reads, 0), keepOverdue))

\* .slice(0, 2)
slice2(arr) == SubSeq(arr, 1, IF Len(arr) < 2 THEN Len(arr) ELSE 2)

\* sorted.filter(t => t.nextExecuteTime >= Date.now()).slice(0, 2): a second
\* pass over sorted, with the readings that follow those of the first.
urgentItems(srt, reads) ==
    slice2(elements(SelectSeq(called(srt, reads, Len(srt)), keepUpcoming)))

\* Before the first render.
NoView ==
    [rendered |-> FALSE, sorted |-> <<>>, overdueItems |-> <<>>,
     urgentItems |-> <<>>, reads |-> <<>>]

\* --------------------------------------------------------------- the store
\* A slip: the write creates a record and never replaces one.
setDocIfAbsent(st, todo) ==
    [i \in DOMAIN st \cup {todo.id} |-> IF i \in DOMAIN st THEN st[i] ELSE todo]

\* setDoc(doc(db, COLLECTION, todo.id), todo): the whole record, under its id.
setDoc(st, todo) ==
    [i \in DOMAIN st \cup {todo.id} |-> IF i = todo.id THEN todo ELSE st[i]]

\* deleteDoc(doc(db, COLLECTION, id))
deleteDoc(st, id) == [i \in DOMAIN st \ {id} |-> st[i]]

RECURSIVE docsFrom(_, _)
docsFrom(st, ids) ==
    IF ids = {} THEN <<>>
    ELSE LET i == CHOOSE x \in ids : \A y \in ids : x <= y
         IN  <<st[i]>> \o docsFrom(st, ids \ {i})

\* snapshot.docs.map(doc => doc.data()): the whole collection, in id order.
docs(st) == docsFrom(st, DOMAIN st)

EmptyStore == [i \in {} |-> 0]

\* A slip: the listeners hear of documents that come or go, not of changes
\* to a document.
pushedOnNewIds(st, st2, q) ==
    IF DOMAIN st2 = DOMAIN st THEN q ELSE Append(q, docs(st2))

\* The store tells its listeners when the collection has changed.
pushed(st, st2, q) == IF st2 = st THEN q ELSE Append(q, docs(st2))

\* ------------------------------------------------------------ the intents
NoUpdates == [k \in {} |-> 0]

\* The field changes the table's inputs pass to updateTodo.
eventUpdates == {[event |-> e] : e \in EventTexts}

frequencyUpdates ==
    {[frequency |-> [value |-> Number(t), unit |-> u]] :
        t \in FreqTexts, u \in UnitChoices}

lastExecuteTimeUpdates == {[lastExecuteTime |-> Some(t)] : t \in LastTimes}

Updates == eventUpdates \cup frequencyUpdates \cup lastExecuteTimeUpdates

\* The record of a write that landed: the intent behind it, what the intent
\* was given, what it found in memory, and the store it met.
Hist(op, id, found, updates) ==
    [op |-> op, id |-> id, at |-> now, found |-> found, before |-> store,
     updates |-> updates]

\* ------------------------------------------------------------------- Init
\* A record an earlier session left in the store: Todo's lastExecuteTime is
\* number | null, and this one was never completed.
legacyTodo ==
    [id |-> 1,
     event |-> "Legacy",
     frequency |-> [value |-> 1, unit |-> "days"],
     lastExecuteTime |-> Null,
     nextExecuteTime |-> 0 + 86400,
     createdAt |-> 0,
     skippedAt |-> Null]

\* A record an earlier session made with addTodo, at 0.
earlierTodo == newTodo(1, 0)

\* The collection the client meets when it mounts.
InitialStores ==
    {EmptyStore, setDoc(EmptyStore, earlierTodo), setDoc(EmptyStore, legacyTodo)}

Init ==
    /\ todos = <<>>
    /\ store \in InitialStores
    /\ snaps = <<docs(store)>>
    /\ now = 1
    /\ ticks = 0
    /\ writes = 0
    /\ nextId = Cardinality(DOMAIN store) + 1
    /\ console = {}
    /\ removed = {}
    /\ view = NoView
    /\ hist = [op |-> "none", id |-> 0, at |-> 0, found |-> Null,
               before |-> EmptyStore, updates |-> NoUpdates]

\* ---------------------------------------------------------------- actions
\* The clock advances.
Tick ==
    /\ ticks < MaxTicks
    /\ now' = now + 1
    /\ ticks' = ticks + 1
    /\ UNCHANGED <<todos, store, snaps, writes, nextId, console, removed, view, hist>>

\* The onSnapshot listener: setTodos(items).
Snapshot ==
    /\ snaps # <<>>
    /\ todos' = Head(snaps)
    /\ snaps' = Tail(snaps)
    /\ UNCHANGED <<store, now, ticks, writes, nextId, console, removed, view, hist>>

\* saveTodo: the write lands in the store, or it is rejected and the catch
\* logs the error.
saveTodo(todo, op, found, updates) ==
    \/ /\ writes < MaxWrites
       /\ Len(snaps) < MaxSnaps
       /\ store' = setDoc(store, todo)
       /\ snaps' = pushed(store, store', snaps)
       /\ writes' = writes + 1
       /\ console' = console \cup {"Saved todo:"}
       /\ hist' = Hist(op, todo.id, found, updates)
       /\ UNCHANGED removed
    \/ /\ writes < MaxWrites
       /\ writes' = writes + 1
       /\ console' = console \cup {"Error saving todo:"}
       /\ UNCHANGED <<store, snaps, removed, hist>>

addTodo ==
    /\ nextId <= MaxTasks
    /\ saveTodo(newTodo(nextId, now), "add", Null, NoUpdates)
    /\ nextId' = nextId + 1
    /\ UNCHANGED <<todos, now, ticks, view>>

\* if (!todo) return
notFound == UNCHANGED vars

updateTodo(id, updates) ==
    LET todo == find(todos, id)
    IN  IF todo = Null THEN notFound
        ELSE /\ saveTodo(updated(todo[1], updates), "update", todo, updates)
             /\ UNCHANGED <<todos, now, ticks, nextId, view>>

complete(id) ==
    LET todo == find(todos, id)
    IN  IF todo = Null THEN notFound
        ELSE /\ saveTodo(completed(todo[1], now), "complete", todo, NoUpdates)
             /\ UNCHANGED <<todos, now, ticks, nextId, view>>

skip(id) ==
    LET todo == find(todos, id)
    IN  IF todo = Null THEN notFound
        ELSE /\ saveTodo(skipped(todo[1], now), "skip", todo, NoUpdates)
             /\ UNCHANGED <<todos, now, ticks, nextId, view>>

\* remove: the delete lands in the store, or it is rejected and nothing
\* catches the rejection.
remove(id) ==
    /\ \/ /\ writes < MaxWrites
          /\ Len(snaps) < MaxSnaps
          /\ store' = deleteDoc(store, id)
          /\ snaps' = pushed(store, store', snaps)
          /\ writes' = writes + 1
          /\ hist' = Hist("remove", id, find(todos, id), NoUpdates)
          /\ removed' = removed \cup {id}
          /\ UNCHANGED console
       \/ /\ writes < MaxWrites
          /\ writes' = writes + 1
          /\ console' = console \cup {"Uncaught (in promise)"}
          /\ UNCHANGED <<store, snaps, removed, hist>>
    /\ UNCHANGED <<todos, now, ticks, nextId, view>>

\* The ids a control of the page can name: those that have been handed out.
Issued == {id \in Ids : id < nextId}

\* The controls of the table: the inputs of a row and its buttons.
updateTask(id, updates) == id \in Issued /\ updateTodo(id, updates)

completeTask(id) == id \in Issued /\ complete(id)

skipTask(id) == id \in Issued /\ skip(id)

deleteTask(id) == id \in Issued /\ remove(id)

Next ==
    \/ Tick
    \/ Snapshot
    \/ addTodo
    \/ \E id \in Ids, updates \in Updates : updateTask(id, updates)
    \/ \E id \in Ids : completeTask(id)
    \/ \E id \in Ids : skipTask(id)
    \/ \E id \in Ids : deleteTask(id)

\* ---------------------------------------------------------------- render
\* The readings of the clock over one render: 2n of them for n tasks, the
\* clock moving on by a second before the readings in `moved`.
readings(n, moved) ==
    [k \in 1 .. 2 * n |-> now + Cardinality({m \in moved : m <= k})]

\* The body of App up to the return: sorted, overdueItems, urgentItems. (The
\* clock readings of the table rows and of formatRelative come after these
\* and feed neither list.)
Render ==
    LET srt == sorted(todos)
        n == Len(srt)
    IN  \E moved \in SUBSET (1 .. 2 * n) :
            LET reads == readings(n, moved)
            IN  /\ ticks + Cardinality(moved) <= MaxTicks
                /\ view' = [rendered |-> TRUE,
                            sorted |-> srt,
                            overdueItems |-> overdueItems(srt, reads),
                            urgentItems |-> urgentItems(srt, reads),
                            reads |-> reads]
                /\ now' = now + Cardinality(moved)
                /\ ticks' = ticks + Cardinality(moved)
                /\ UNCHANGED <<todos, store, snaps, writes, nextId, console,
                               removed, hist>>

\* The collections the classification is checked on: up to MaxLen tasks, in
\* any order of their times, each as addTodo made it at 0 or at 1.
CreatedTimes == {0, 1}

Collections ==
    UNION {[1 .. n -> CreatedTimes] : n \in 0 .. MaxLen}

collection(created) == [i \in 1 .. Len(created) |-> newTodo(i, created[i])]

\* A day after the first of them was created, the snapshot that holds them
\* delivered.
InitClassify ==
    /\ \E created \in Collections : todos = collection(created)
    /\ store = [i \in 1 .. Len(todos) |-> todos[i]]
    /\ snaps = <<>>
    /\ now = 86400
    /\ ticks = 0
    /\ writes = 0
    /\ nextId = Len(todos) + 1
    /\ console = {}
    /\ removed = {}
    /\ view = NoView
    /\ hist = [op |-> "none", id |-> 0, at |-> 0, found |-> Null,
               before |-> EmptyStore, updates |-> NoUpdates]

NextClassify == Tick \/ Render

SpecClassify == InitClassify /\ [][NextClassify]_vars

Spec == Init /\ [][Next]_vars

\* ------------------------------------------------------------- the claims
\* The record the last landed write left in the store, and the in-memory
\* record it was computed from.
Written == store[hist.id]
Found == hist.found[1]

SameButTimes(r, t) ==
    /\ r.id = t.id
    /\ r.event = t.event
    /\ r.frequency = t.frequency
    /\ r.createdAt = t.createdAt

\* C1: complete(id) at time now on a task of the collection writes a record
\* with lastExecuteTime = now and nextExecuteTime = now + value * ms(unit) of
\* that task's frequency; id, event, frequency and createdAt are the task's.
C1_CompleteSetsLastAndNext ==
    hist.op = "complete" =>
        /\ hist.id \in DOMAIN store
        /\ Written.lastExecuteTime = Some(hist.at)
        /\ Written.nextExecuteTime =
               hist.at + Found.frequency.value * ms(Found.frequency.unit)
        /\ SameButTimes(Written, Found)

\* A task edited to every 2 weeks is completed at 2.
C1_Witness ==
    /\ hist.op = "complete"
    /\ Found.frequency = [value |-> 2, unit |-> "weeks"]
    /\ hist.at = 2
    /\ Written.lastExecuteTime = Some(2)
    /\ Written.nextExecuteTime = 1209602
    /\ Written.nextExecuteTime # Found.nextExecuteTime

\* C2: skip(id) at time now leaves lastExecuteTime, id, event, frequency and
\* createdAt as they were and sets nextExecuteTime = now + duration(frequency),
\* counted from now, not from lastExecuteTime; created at 1 with {1, days}
\* and skipped at 2, the task has lastExecuteTime 1 and nextExecuteTime
\* 2 + 86400.
C2_SkipMovesNextOnly ==
    hist.op = "skip" =>
        /\ hist.id \in DOMAIN store
        /\ Written.lastExecuteTime = Found.lastExecuteTime
        /\ Written.nextExecuteTime = hist.at + frequencyToMs(Found.frequency)
        /\ SameButTimes(Written, Found)
        /\ (/\ Found.createdAt = 1
            /\ Found.lastExecuteTime = Some(1)
            /\ Found.frequency = [value |-> 1, unit |-> "days"]
            /\ hist.at = 2)
           => /\ Written.lastExecuteTime = Some(1)
              /\ Written.nextExecuteTime = 2 + 86400

\* The scenario of the claim: created at 1, skipped at 2.
C2_Witness ==
    /\ hist.op = "skip"
    /\ hist.at = 2
    /\ Found = newTodo(Found.id, 1)
    /\ Written.lastExecuteTime = Some(1)
    /\ Written.nextExecuteTime = 86402

\* What the changes make of a field.
Changed(field) ==
    IF field \in DOMAIN hist.updates THEN hist.updates[field] ELSE Found[field]

Recomputes ==
    /\ hist.op = "update"
    /\ \/ "frequency" \in DOMAIN hist.updates
       \/ "lastExecuteTime" \in DOMAIN hist.updates

\* C3: updateTodo(id, changes) with a frequency or a lastExecuteTime among the
\* changes writes nextExecuteTime = (the new lastExecuteTime, or createdAt
\* when lastExecuteTime is still null) + duration(the new frequency); with
\* lastExecuteTime = T, a change to every 2 weeks gives T + 1209600.
C3_UpdateRecomputesNext ==
    Recomputes =>
        LET last == Changed("lastExecuteTime")
            freq == Changed("frequency")
            anchor == IF last = Null THEN Found.createdAt ELSE last[1]
        IN  /\ hist.id \in DOMAIN store
            /\ Written.lastExecuteTime = last
            /\ Written.frequency = freq
            /\ Written.nextExecuteTime = anchor + freq.value * ms(freq.unit)
            /\ (last # Null /\ freq = [value |-> 2, unit |-> "weeks"])
               => Written.nextExecuteTime = last[1] + 1209600

\* Every day becomes every 2 weeks on a task that has a lastExecuteTime.
C3_Witness ==
    /\ Recomputes
    /\ Found.frequency = [value |-> 1, unit |-> "days"]
    /\ hist.updates = [frequency |-> [value |-> 2, unit |-> "weeks"]]
    /\ Found.lastExecuteTime # Null
    /\ Written.nextExecuteTime = Found.lastExecuteTime[1] + 1209600
    /\ Written.nextExecuteTime # Found.nextExecuteTime

EventOnly == hist.op = "update" /\ DOMAIN hist.updates = {"event"}

\* C4: updateTodo(id, {event: e}) writes the task's nextExecuteTime and
\* lastExecuteTime as they were, also when a skip had moved nextExecuteTime,
\* and leaves every other record as it was.
C4_EventEditKeepsTimes ==
    EventOnly =>
        /\ hist.id \in DOMAIN store
        /\ Written.event = hist.updates.event
        /\ Written.nextExecuteTime = Found.nextExecuteTime
        /\ Written.lastExecuteTime = Found.lastExecuteTime
        /\ DOMAIN store \ {hist.id} = DOMAIN hist.before \ {hist.id}
        /\ \A j \in DOMAIN store \ {hist.id} : store[j] = hist.before[j]

\* The event of a skipped task is edited: its nextExecuteTime is the skip's.
C4_Witness ==
    /\ EventOnly
    /\ Found.skippedAt # Null
    /\ Found.lastExecuteTime # Found.skippedAt
    /\ Written.nextExecuteTime = Found.skippedAt[1] + frequencyToMs(Found.frequency)
    /\ Written.event # Found.event

\* lastExecuteTime ?? createdAt
lastOrCreated(t) ==
    IF t.lastExecuteTime = Null THEN t.createdAt ELSE t.lastExecuteTime[1]

\* The records of the persisted and of the in-memory collection.
Records ==
    {store[i] : i \in DOMAIN store} \cup {todos[i] : i \in 1 .. Len(todos)}

C6_FrequencyStaysPositive ==
    \A t \in Records :
        LET anchor == IF t.skippedAt # Null THEN t.skippedAt[1] ELSE lastOrCreated(t)
        IN  /\ t.frequency.value >= 1
            /\ t.nextExecuteTime > anchor

idsOf(arr) == {arr[i].id : i \in 1 .. Len(arr)}

recordsOf(arr) == {arr[i] : i \in 1 .. Len(arr)}

NoRepeat(arr) == Cardinality(idsOf(arr)) = Len(arr)

\* The tasks the render put in neither list, in the order of sorted.
InNeither(t) ==
    t.id \notin idsOf(view.overdueItems) \cup idsOf(view.urgentItems)

Rest == SelectSeq(view.sorted, InNeither)

\* C7: a render puts every task in exactly one of overdue, upcoming and rest:
\* no task is in both overdue and upcoming, none is listed twice, and the
\* three together are a permutation of the collection, also when the clock
\* moves on between its readings.
C7_ClassifyPartitions ==
    view.rendered =>
        /\ idsOf(view.overdueItems) \cap idsOf(view.urgentItems) = {}
        /\ NoRepeat(view.overdueItems)
        /\ NoRepeat(view.urgentItems)
        /\ NoRepeat(Rest)
        /\ Len(view.overdueItems) + Len(view.urgentItems) + Len(Rest) = Len(todos)
        /\ recordsOf(view.overdueItems) \cup recordsOf(view.urgentItems)
               \cup recordsOf(Rest) = recordsOf(todos)

\* The clock moved on during the render, and a task that was not yet overdue
\* at the first pass was no longer upcoming at the second.
C7_Witness ==
    /\ view.rendered
    /\ view.overdueItems # <<>>
    /\ view.urgentItems # <<>>
    /\ \E i \in 1 .. Len(view.sorted) :
           /\ view.sorted[i] \in recordsOf(Rest)
           /\ view.sorted[i].nextExecuteTime >= view.reads[i]
           /\ view.sorted[i].nextExecuteTime < view.reads[Len(view.sorted) + i]

\* The render read the same time at every reading.
ReadAt(n) == view.rendered /\ \A k \in DOMAIN view.reads : view.reads[k] = n

\* C8: at one time now, overdue is exactly the tasks with
\* nextExecuteTime < now, in ascending order of nextExecuteTime, and upcoming
\* is min(2, number of the others) of the others, none of those left out
\* being due before one of those listed; a task due exactly now is one of the
\* others.
C8_OverdueAndUpcoming ==
    (view.rendered /\ todos # <<>>) =>
        LET n == view.reads[1]
        IN  ReadAt(n) =>
            LET over == {t \in recordsOf(todos) : t.nextExecuteTime < n}
                others == recordsOf(todos) \ over
                O == view.overdueItems
                U == view.urgentItems
            IN  /\ recordsOf(O) = over
                /\ NoRepeat(O)
                /\ \A i, j \in 1 .. Len(O) :
                       i < j => O[i].nextExecuteTime <= O[j].nextExecuteTime
                /\ Len(U) = (IF Cardinality(others) < 2 THEN Cardinality(others) ELSE 2)
                /\ NoRepeat(U)
                /\ recordsOf(U) \subseteq others
                /\ \A t \in others \ recordsOf(U) :
                       \A k \in 1 .. Len(U) : U[k].nextExecuteTime <= t.nextExecuteTime

\* One task overdue, one due exactly now, two more to come: upcoming is cut
\* to two and starts with the one due now.
C8_Witness ==
    /\ todos # <<>>
    /\ ReadAt(view.reads[1])
    /\ Len(view.overdueItems) = 1
    /\ Len(todos) = 4
    /\ Len(view.urgentItems) = 2
    /\ view.urgentItems[1].nextExecuteTime = view.reads[1]

\* C9: a record whose delete has landed is not in the persisted collection
\* again, whatever intents and snapshots follow.
C9_RemovedStaysRemoved == \A id \in removed : id \notin DOMAIN store

\* C10: updateTodo, complete, skip and remove for an id that is not in the
\* persisted collection leave the collection as it is.
C10_MissingIdIsNoOp ==
    (hist.op \in {"update", "complete", "skip", "remove"}
        /\ hist.id \notin DOMAIN hist.before)
    => store = hist.before

\* C11: a write the store rejects, the setDoc of add, update, complete and
\* skip and the deleteDoc of remove alike, is caught and logged where it is
\* made: no rejection leaves its handler uncaught.
C11_RejectionsAreCaught == "Uncaught (in promise)" \notin console

\* The record the last landed upsert carried.
Sent ==
    CASE hist.op = "add"      -> newTodo(hist.id, hist.at)
      [] hist.op = "update"   -> updated(Found, hist.updates)
      [] hist.op = "complete" -> completed(Found, hist.at)
      [] hist.op = "skip"     -> skipped(Found, hist.at)

Upserted == hist.op \in {"add", "update", "complete", "skip"}

\* C12: a write of add, update, complete or skip puts its whole record in
\* the place of the one stored under the same id: the stored record is
\* exactly the record of the latest write, whatever an earlier write from the
\* same in-memory copy had stored, the collection holds one record for an id,
\* and the records under other ids are as they were.
C12_UpsertLastWriterWins ==
    Upserted =>
        /\ DOMAIN store = DOMAIN hist.before \cup {hist.id}
        /\ store[hist.id] = Sent
        /\ NoRepeat(docs(store))
        /\ idsOf(docs(store)) = DOMAIN store
        /\ \A j \in DOMAIN store \ {hist.id} : store[j] = hist.before[j]

\* Two writes from one in-memory copy: the first had changed the stored
\* frequency, the second, which carries no frequency change, stores the
\* copy's frequency again.
C12_Witness ==
    /\ Upserted
    /\ writes = 2
    /\ hist.found # Null
    /\ Found \in recordsOf(todos)
    /\ hist.id \in DOMAIN hist.before
    /\ hist.before[hist.id] # Found
    /\ "frequency" \notin DOMAIN hist.updates
    /\ hist.before[hist.id].frequency # Found.frequency
    /\ store[hist.id] = Sent
    /\ store[hist.id].frequency = Found.frequency

\* C13: addTodo at time now stores one new record, under an id that was not
\* in the collection, with event 'New Task', frequency {1, days},
\* lastExecuteTime = now, createdAt = now and nextExecuteTime = now + 86400
\* (86400000 ms), and leaves the records that were there as they were.
C13_AddCreatesOneRecord ==
    hist.op = "add" =>
        /\ hist.id \notin DOMAIN hist.before
        /\ DOMAIN store = DOMAIN hist.before \cup {hist.id}
        /\ Cardinality(DOMAIN store) = Cardinality(DOMAIN hist.before) + 1
        /\ \A j \in DOMAIN hist.before : store[j] = hist.before[j]
        /\ Written.id = hist.id
        /\ Written.event = "New Task"
        /\ Written.frequency = [value |-> 1, unit |-> "days"]
        /\ Written.lastExecuteTime = Some(hist.at)
        /\ Written.createdAt = hist.at
        /\ Written.nextExecuteTime = hist.at + 86400

\* A task is added at 1 to a collection that holds an edited one: the new
\* record is due at 1 + 86400.
C13_Witness ==
    /\ hist.op = "add"
    /\ hist.at = 1
    /\ hist.before # EmptyStore
    /\ \E j \in DOMAIN hist.before : hist.before[j].frequency.unit = "weeks"
    /\ Written.lastExecuteTime = Some(1)
    /\ Written.nextExecuteTime = 86401

====
